---- MODULE Spec2Model ----
(***************************************************************************)
(* Solar Cube integration for Home Assistant.                              *)
(*                                                                         *)
(* custom_components/solar_cube/__init__.py : config-entry lifecycle and   *)
(*   the one-shot provisioning routines (storage dashboards, automations   *)
(*   merge, Energy dashboard configure, frontend installer hook).          *)
(* custom_components/solar_cube/api.py : the InfluxDB query client and its *)
(*   error mapping.                                                        *)
(*                                                                         *)
(* Coroutines are cut into one action per stretch of code between two      *)
(* suspension points (await) or routine boundaries; a flag test and the    *)
(* assignment that follows it without an await are always one action.      *)
(* Jobs handed to the executor run on worker threads, so their file        *)
(* operations are separate actions that interleave with everything else.   *)
(***************************************************************************)
EXTENDS Integers, FiniteSets, Sequences, TLC

\* ---------------------------------------------------------------- bounds
MaxSetups == 2
MaxFaults == 1
MaxMerges == 2
MaxLen == 2
MaxRows == 4

\* ------------------------------------------------------ program constants
NumSlots == 3

Entries == {"e1", "e2"}
Slots == 1..NumSlots
RETRY == "retry"
Ctx == Entries \cup {RETRY}

VARIABLES
  \* config entries (host state)
  opts,            \* entry.options: [imp, energy, inst]
  cfgv,            \* config snapshot taken at line 90 of the running setup
  pc,              \* position of async_setup_entry / state of the entry
  restartNeeded,   \* local restart_needed of the running setup
  \* hass.data[DOMAIN]
  dd,              \* set of keys present in domain_data (flags are truthy)
  \* restart notice
  irAvail,         \* issue registry importable
  issue,           \* restart_required issue present in the issue registry
  notification,    \* fallback persistent notification shown
  raised,          \* line 180 has raised the issue in this process lifetime
  \* Lovelace / host start
  lovelaceAvail,   \* lovelace names importable (lines 438-455)
  lovelaceReady,   \* LOVELACE_DATA in hass.data
  started,         \* EVENT_HOMEASSISTANT_STARTED has fired
  listeners,       \* pending async_listen_once(.., _retry) registrations
  retryPending,    \* _retry callbacks fired and not yet run
  \* _async_ensure_storage_dashboards, one activation per caller context
  spc, sidx, schanged, sexisting,
  \* Lovelace state per dashboard slot
  owned,           \* url_path in lovelace_data.dashboards
  coll,            \* url_path has an item in the dashboards collection
  stored,          \* stored Lovelace config of the slot
  srcUser, srcPkg, \* source YAML in /config/dashboards and in the package
  panels,          \* url paths registered with the frontend
  \* packaged files
  shipped,         \* dashboards/automations.yaml
  template,        \* dashboards/energy.json
  script,          \* tools/install_frontend_deps.sh
  \* automations.yaml
  autoFile, achanged,
  \* .storage/energy
  energyFile, energyTmp, energyBak, efd, echanged,
  \* installer task
  task,
  \* history
  setups,          \* setups started so far
  faults,          \* failures the environment may still produce
  importRuns,      \* times the dashboards import got past its one-shot guard
  autoWrites,      \* completed writes of automations.yaml
  energyWrites,    \* completed renames over .storage/energy
  runChanged,      \* the caller's current run changed persisted state
  runReports,      \* restart notices requested by the caller's current run
  \* the entry's client and its unload
  closes,          \* close() calls on the client of the entry's last setup
  unloaded,        \* the last async_unload_entry of the entry: the result
                   \* of the platform unload, and whether close() raised
  orphans,         \* clients created at line 92 on which close() was never
                   \* called and that neither a running setup nor
                   \* domain_data holds any more
  \* update listener (_async_reload_entry)
  suppress,        \* "_suppress_next_reload" is set in the entry's data
  updates,         \* update-listener tasks created and not yet run
  reloads,         \* the listener has called async_reload for the entry
  \* SolarCubeApi (api.py)
  call,            \* the query operation in flight, or "none"
  outcome,         \* per operation: the backend's last response and what
                   \* the operation did with it
  \* _read_merge_write on concrete lists (automations merge)
  shippedYaml,     \* the list loaded from dashboards/automations.yaml
  configYaml,      \* the list held by /config/automations.yaml
  mergeRuns,       \* merges run so far, one per process lifetime
  mergeExisting,   \* the list the last merge read
  mergeAppended,   \* the entries the last merge appended
  mergeWrote,      \* the last merge rewrote automations.yaml
  \* _read_modify_write on concrete JSON documents (Energy configure)
  storeExists,     \* .storage/energy exists
  storeJson,       \* the JSON object it holds (key -> value)
  templateData,    \* "data" of dashboards/energy.json
  rmwDone,         \* _read_modify_write has run
  rmwChanged,      \* its return value
  rmwExisting,     \* the object it read
  \* the reshaping of a rowset (async_get_forecast, async_get_optimal_actions)
  rows,            \* per reshaper: the rows its query returned
  tzone,           \* hass_timezone
  reshaped,        \* the reshapers that have returned
  records          \* per reshaper: the list it returned

lvars == << opts, cfgv, pc, restartNeeded, dd, irAvail, issue, notification,
            raised, orphans,
            lovelaceAvail, lovelaceReady, started, listeners, retryPending,
            spc, sidx, schanged, sexisting,
            owned, coll, stored, srcUser, srcPkg, panels,
            shipped, template, script,
            autoFile, achanged,
            energyFile, energyTmp, energyBak, efd, echanged,
            task,
            setups, faults, importRuns, autoWrites, energyWrites,
            runChanged, runReports,
            closes, unloaded, suppress, updates, reloads >>

apiv == << call, outcome >>

mergev == << shippedYaml, configYaml, mergeRuns, mergeExisting, mergeAppended,
            mergeWrote >>

\* the inputs and results of the pure parts of the routines
storev == << storeExists, storeJson, templateData, rmwDone, rmwChanged,
            rmwExisting >>

rowsv == << rows, tzone, reshaped, records >>

purev == << mergev, storev, rowsv >>

vars == << lvars, apiv, purev >>

\* groups for UNCHANGED
envv == << irAvail, lovelaceAvail, shipped, template, script, srcUser, srcPkg >>
\* what no step of the entry lifecycle changes
constv == << envv, apiv, purev >>
noticev == << issue, notification, raised >>
hostv == << lovelaceReady, started, listeners, retryPending >>
sdv == << spc, sidx, schanged, sexisting >>
slotv == << owned, coll, stored, panels >>
autov == << autoFile, achanged >>
energyv == << energyFile, energyTmp, energyBak, efd, echanged >>
countv == << importRuns, autoWrites, energyWrites >>
runv == << runChanged, runReports >>
clientv == << closes, unloaded, orphans >>
listenv == << suppress, updates, reloads >>

\* ---------------------------------------------------------------- helpers
Options == [imp : BOOLEAN, energy : BOOLEAN, inst : BOOLEAN]

\* Outcomes of a fallible host or file-system call: "ok" or one of the
\* failures in S, as long as the budget of failures (faults) is not spent.
Outcomes(S) == {"ok"} \cup (IF faults > 0 THEN S ELSE {})
Spend(f) == faults' = faults - (IF f = "ok" THEN 0 ELSE 1)

\* _report_restart_required: Repairs issue, or the fallback notification
\* (guarded by restart_notification_shown) when the registry is unavailable.
ReportIssue(i) == IF irAvail THEN TRUE ELSE i
ReportNotification(n) == IF irAvail THEN n ELSE TRUE
ReportDomainData(d) ==
  IF irAvail THEN d ELSE d \cup {"restart_notification_shown"}

\* _clear_restart_required_issue
ClearIssue(i) == IF irAvail THEN FALSE ELSE i

AddReport(c) == [runReports EXCEPT ![c] = @ + 1]

\* async_unload_entry has not been called since the entry's last setup
NotUnloaded == [called |-> FALSE, ok |-> FALSE, raised |-> FALSE]

InstallerBusy(e) == task[e] \in {"created", "running"}

\* line 117: the update listener is registered from here until the entry
\* is unloaded or its setup has raised.
Listening(e) == pc[e] \notin {"absent", "idle", "refresh", "error"}

\* lines 147-149 and 170-172: the flag is set in the entry's data, when
\* domain_data still holds them.
SetSuppress(e) == [suppress EXCEPT ![e] = IF e \in dd THEN TRUE ELSE @]

\* lines 150-153 and 173-176: async_update_entry with the option switched
\* off; when the options change, the host creates a task for every update
\* listener of the entry.
UpdateEntry(e, changes) ==
  [updates EXCEPT ![e] = IF changes /\ Listening(e) THEN @ + 1 ELSE @]

\* ------------------------------------------------------------------ api.py
\* The four query operations; async_validate has two backend calls, a
\* narrow query when a bucket is given and a bucket listing otherwise.
Operations == {"async_validate(bucket)", "async_validate()", "async_query_last",
               "async_get_forecast", "async_get_optimal_actions"}

\* the two operations that reshape the rows of their query into records
Reshapers == {"async_get_forecast", "async_get_optimal_actions"}

Unauthorized == 401
BadRequest == 400

\* What the backend call made through asyncio.to_thread can do: return
\* tables, raise ApiException with an HTTP status (0: no HTTP response), or
\* raise an exception of the transport that is not an ApiException.
Responses ==
  {[kind |-> "tables", status |-> 0], [kind |-> "transport", status |-> 0]}
  \cup [kind : {"ApiException"}, status : {0, BadRequest, Unauthorized, 500}]

NoCall == [resp |-> [kind |-> "none", status |-> 0], result |-> "none",
           logged |-> FALSE]

\* (mutation of MapApiException: the status test of the handler is lost)
MapApiExceptionNoAuth(status) == "SolarCubeApiRequestError"

\* lines 87-95, 139-148, 167-178, 236-247: the except ApiException clause,
\* the same in the four operations.
MapApiException(status) ==
  IF status = Unauthorized THEN "SolarCubeApiAuthError"
  ELSE "SolarCubeApiRequestError"

\* The try statement around the backend call: only ApiException is
\* handled; any other exception leaves the operation as it is.
Surface(r) ==
  IF r.kind = "tables" THEN "returned"
  ELSE IF r.kind = "ApiException" THEN MapApiException(r.status)
  ELSE "other exception"

\* lines 90-94, 142-147, 170-177, 239-246: a 400 is logged before it is
\* raised as a request error.
LogsRejection(r) == r.kind = "ApiException" /\ r.status = BadRequest

\* ---------------------------------------------------------- initial state
FreshSlots ==
  /\ owned = {} /\ coll = {} /\ panels = {}
  /\ stored = [s \in Slots |-> "absent"]
  /\ srcUser = [s \in Slots |-> "missing"]
  /\ srcPkg = [s \in Slots |-> "good"]

InitCommon ==
  /\ cfgv = [e \in Entries |-> [imp |-> FALSE, energy |-> FALSE, inst |-> FALSE]]
  /\ restartNeeded = [e \in Entries |-> FALSE]
  /\ dd = {}
  /\ issue = FALSE /\ notification = FALSE /\ raised = FALSE
  /\ lovelaceReady = FALSE /\ started = FALSE
  /\ listeners = 0 /\ retryPending = 0
  /\ spc = [c \in Ctx |-> "none"]
  /\ sidx = [c \in Ctx |-> 1]
  /\ schanged = [c \in Ctx |-> FALSE]
  /\ sexisting = [c \in Ctx |-> {}]
  /\ achanged = [e \in Entries |-> FALSE]
  /\ energyTmp = "none" /\ energyBak = FALSE
  /\ efd = [e \in Entries |-> "none"]
  /\ echanged = [e \in Entries |-> FALSE]
  /\ task = [e \in Entries |-> "none"]
  /\ setups = 0
  /\ importRuns = 0 /\ autoWrites = 0 /\ energyWrites = 0
  /\ runChanged = [c \in Ctx |-> FALSE]
  /\ runReports = [c \in Ctx |-> 0]
  /\ closes = [e \in Entries |-> 0]
  /\ unloaded = [e \in Entries |-> NotUnloaded]
  /\ orphans = 0
  /\ suppress = [e \in Entries |-> FALSE]
  /\ updates = [e \in Entries |-> 0]
  /\ reloads = [e \in Entries |-> FALSE]
  /\ shipped = "good" /\ template = "good" /\ script \in {"present", "missing"}
  /\ call = "none"
  /\ outcome = [o \in Operations |-> NoCall]

\* No concrete lists: the lifecycle is modelled on the abstract file states.
NoMerge ==
  /\ shippedYaml = << >> /\ configYaml = << >>
  /\ mergeRuns = 0
  /\ mergeExisting = << >> /\ mergeAppended = << >>
  /\ mergeWrote = FALSE

\* No concrete Energy store either.
NoStore ==
  /\ storeExists = FALSE
  /\ storeJson = << >> /\ templateData = << >> /\ rmwExisting = << >>
  /\ rmwDone = FALSE /\ rmwChanged = FALSE

\* No rowset: the query client is modelled on the kinds of response.
NoRows ==
  /\ rows = [o \in Reshapers |-> {}]
  /\ tzone = "UTC"
  /\ reshaped = {}
  /\ records = [o \in Reshapers |-> << >>]

NoInputs == NoMerge /\ NoStore /\ NoRows

\* One config entry (e1), any options, in an environment that may fail.
Init ==
  /\ InitCommon
  /\ NoInputs
  /\ FreshSlots
  /\ pc = [e \in Entries |-> IF e = "e1" THEN "idle" ELSE "absent"]
  /\ opts \in [Entries -> Options]
  /\ opts["e2"] = [imp |-> FALSE, energy |-> FALSE, inst |-> FALSE]
  /\ irAvail \in BOOLEAN
  /\ lovelaceAvail \in BOOLEAN
  /\ autoFile \in {"absent", "user", "merged"}
  /\ energyFile \in {"absent", "other", "configured"}
  /\ faults = MaxFaults

\* ------------------------------------------------------ async_setup_entry
\* lines 84-102: clear the restart issue, snapshot the config, create the
\* client and the coordinators, start the first refreshes.  (A new setup of
\* an entry is taken to start only once its installer task has ended; the
\* host awaits before it sets up or unloads an entry, so an update-listener
\* task that is ready runs first.)
SetupBegin(e) ==
  /\ pc[e] \in {"idle", "error"}
  /\ ~InstallerBusy(e)
  /\ updates[e] = 0
  /\ setups < MaxSetups
  /\ closes' = [closes EXCEPT ![e] = 0]
  /\ unloaded' = [unloaded EXCEPT ![e] = NotUnloaded]
  /\ setups' = setups + 1
  /\ issue' = ClearIssue(issue)
  /\ cfgv' = [cfgv EXCEPT ![e] = opts[e]]
  /\ restartNeeded' = [restartNeeded EXCEPT ![e] = FALSE]
  /\ runChanged' = [runChanged EXCEPT ![e] = FALSE]
  /\ runReports' = [runReports EXCEPT ![e] = 0]
  /\ pc' = [pc EXCEPT ![e] = "refresh"]
  /\ UNCHANGED << constv, listenv, opts, dd, notification, raised, orphans,
                  hostv, sdv, slotv, autov, energyv, task, faults, countv >>

\* line 107: the entry's data are assigned a new dict; a dict that a setup
\* which raised later (after line 107) had left there is replaced, and with
\* it the only reference to its client.
Dropped(e, d) == IF e \in d THEN 1 ELSE 0

\* lines 102-159: the three first refreshes; on success the entry's runtime
\* data is stored (a new dict, without "_suppress_next_reload"), the update
\* listener added and, when selected, the installer task created.  A
\* refresh that raises aborts the setup: the client of line 92 is a local of
\* the coroutine, and nothing closes it.
FirstRefresh(e, f) ==
  /\ pc[e] = "refresh"
  /\ Spend(f)
  /\ IF f = "ok"
       THEN /\ dd' = dd \cup {e}
            /\ suppress' = [suppress EXCEPT ![e] = FALSE]
            /\ task' = [task EXCEPT ![e] = IF cfgv[e].inst THEN "created" ELSE @]
            /\ pc' = [pc EXCEPT ![e] = "dash"]
            /\ orphans' = orphans + Dropped(e, dd)
       ELSE /\ pc' = [pc EXCEPT ![e] = "idle"]
            /\ orphans' = orphans + 1
            /\ UNCHANGED << dd, task, suppress >>
  /\ UNCHANGED << constv, closes, unloaded, updates, reloads, opts, cfgv,
                  restartNeeded, noticev, hostv, sdv, slotv, autov, energyv,
                  setups, countv, runv >>

\* ---------------------------------------- _async_ensure_storage_dashboards
\* What the caller does with the routine's return value: async_setup_entry
\* (line 162) ors it into restart_needed and goes on to the automations;
\* _retry (line 463) discards it.
SDReturn(c, changed) ==
  /\ spc' = [spc EXCEPT ![c] = "none"]
  /\ runChanged' = [runChanged EXCEPT ![c] = @ \/ changed]
  /\ IF c = RETRY
       THEN UNCHANGED << pc, restartNeeded >>
       ELSE /\ pc' = [pc EXCEPT ![c] = "autom"]
            /\ restartNeeded' = [restartNeeded EXCEPT ![c] = @ \/ changed]

\* An exception leaving the routine: it propagates out of async_setup_entry
\* (no handler at line 162), or ends the _retry task.
SDRaise(c) ==
  /\ spc' = [spc EXCEPT ![c] = "none"]
  /\ IF c = RETRY
       THEN UNCHANGED pc
       ELSE pc' = [pc EXCEPT ![c] = "error"]

\* (mutation of RetryScheduled: the guard of line 458 is lost)
RetryScheduledNever(d) == FALSE

\* line 458: a retry listener is already registered.
RetryScheduled(d) == "lovelace_retry_scheduled" \in d

\* line 469: the one-shot guard of the import.
AlreadyImported(d) == "storage_dashboards_imported" \in d

\* lines 437-487: from the call up to the first await (line 544); d is
\* domain_data as the routine finds it.
SDBegin(c, d, f) ==
  /\ Spend(f)
  /\ IF ~lovelaceAvail
       THEN \* lines 453-455
            /\ f = "ok"
            /\ SDReturn(c, FALSE)
            /\ dd' = d
            /\ UNCHANGED << listeners, importRuns, sidx, schanged >>
       ELSE IF ~lovelaceReady
       THEN \* lines 457-466
            /\ f = "ok"
            /\ IF ~RetryScheduled(d)
                 THEN /\ dd' = d \cup {"lovelace_retry_scheduled"}
                      /\ listeners' = listeners + 1
                 ELSE /\ dd' = d
                      /\ UNCHANGED listeners
            /\ SDReturn(c, FALSE)
            /\ UNCHANGED << importRuns, sidx, schanged >>
       ELSE IF AlreadyImported(d)
       THEN \* lines 469-470
            /\ f = "ok"
            /\ SDReturn(c, FALSE)
            /\ dd' = d
            /\ UNCHANGED << listeners, importRuns, sidx, schanged >>
       ELSE \* lines 471-544
            /\ dd' = d \cup {"storage_dashboards_imported"}
            /\ importRuns' = importRuns + 1
            /\ UNCHANGED listeners
            /\ IF f = "mkdir"
                 THEN /\ SDReturn(c, FALSE)
                      /\ UNCHANGED << sidx, schanged >>
                 ELSE /\ spc' = [spc EXCEPT ![c] = "load"]
                      /\ sidx' = [sidx EXCEPT ![c] = 1]
                      /\ schanged' = [schanged EXCEPT ![c] = FALSE]
                      /\ UNCHANGED << pc, restartNeeded, runChanged >>

\* line 161-162: async_setup_entry reaches the dashboards import.
EnsureStorageDashboards(e, f) ==
  /\ pc[e] = "dash"
  /\ spc[e] = "none"
  /\ IF cfgv[e].imp
       THEN SDBegin(e, dd, f)
       ELSE /\ f = "ok"
            /\ pc' = [pc EXCEPT ![e] = "energy"]
            /\ UNCHANGED << faults, dd, listeners, importRuns, spc, sidx,
                            schanged, restartNeeded, runChanged >>
  /\ UNCHANGED << constv, clientv, listenv, opts, cfgv, noticev, lovelaceReady, started,
                  retryPending, sexisting, slotv, autov, energyv, task, setups,
                  autoWrites, energyWrites, runReports >>

\* lines 461-463: the _retry listener, run after the host's started event:
\* pops lovelace_retry_scheduled and calls the routine again.
Retry(f) ==
  /\ retryPending > 0
  /\ spc[RETRY] = "none"
  /\ retryPending' = retryPending - 1
  /\ SDBegin(RETRY, dd \ {"lovelace_retry_scheduled"}, f)
  /\ UNCHANGED << constv, clientv, listenv, opts, cfgv, noticev, lovelaceReady, started, sexisting,
                  slotv, autov, energyv, task, setups, autoWrites,
                  energyWrites, runReports >>

\* line 543-549: DashboardsCollection.async_load and the snapshot of its
\* items.  Nothing catches an exception of the load.
CollectionLoad(c, f) ==
  /\ spc[c] = "load"
  /\ Spend(f)
  /\ IF f = "ok"
       THEN /\ sexisting' = [sexisting EXCEPT ![c] = coll]
            /\ spc' = [spc EXCEPT ![c] = "slot"]
            /\ UNCHANGED pc
       ELSE /\ SDRaise(c)
            /\ UNCHANGED sexisting
  /\ UNCHANGED << constv, clientv, listenv, opts, cfgv, restartNeeded, dd, noticev, hostv, sidx,
                  schanged, slotv, autov, energyv, task, setups, countv, runv >>

\* lines 560-606: the first candidate (user directory, then package) that
\* exists and loads; "none" when no candidate yields a config.
SourceOf(s) ==
  IF srcUser[s] = "good" THEN "user"
  ELSE IF srcPkg[s] = "good" THEN "pkg"
  ELSE "none"

\* lines 631-651: what store.async_load(False) does on the stored config:
\* ConfigNotFound when there is none, an unexpected error, or success (the
\* host's LovelaceStorage reports ConfigNotFound only for a config that is
\* None, so an empty stored config loads).
LoadResult(s, f) ==
  IF f = "load" THEN "error"
  ELSE IF stored[s] = "absent" THEN "ConfigNotFound"
  ELSE "loaded"

\* (mutation of SeedOn: any failed load is taken for a missing config)
SeedOnAnyFailure(r) == r # "loaded"

\* lines 631-635: the stored config is seeded only on ConfigNotFound.
SeedOn(r) == r = "ConfigNotFound"

\* lines 553-666: one iteration of the loop over dashboard_specs.
ImportSlot(c, f) ==
  /\ spc[c] = "slot"
  /\ Spend(f)
  /\ LET s == sidx[c]
         src == SourceOf(s)
         skip == s \in owned \/ src = "none"
         create == ~skip /\ s \notin sexisting[c]
         created == create /\ f # "create"
         hasItem == ~skip /\ (s \in sexisting[c] \/ created)
         res == LoadResult(s, f)
         seed == hasItem /\ SeedOn(res)
         saved == seed /\ f # "save"
         expose == hasItem /\ (saved \/ res = "loaded")
         changed == schanged[c] \/ created \/ saved
     IN
     /\ f = "create" => create
     /\ f = "load" => hasItem
     /\ f = "save" => seed
     /\ f = "register" => expose
     /\ coll' = IF created THEN coll \cup {s} ELSE coll
     /\ stored' = IF saved THEN [stored EXCEPT ![s] = "seeded_" \o src]
                  ELSE stored
     /\ owned' = IF expose THEN owned \cup {s} ELSE owned
     /\ panels' = IF expose /\ f # "register" THEN panels \cup {s} ELSE panels
     /\ IF s < NumSlots
          THEN /\ sidx' = [sidx EXCEPT ![c] = s + 1]
               /\ schanged' = [schanged EXCEPT ![c] = changed]
               /\ UNCHANGED << spc, pc, restartNeeded, runChanged >>
          ELSE /\ SDReturn(c, changed)
               /\ UNCHANGED << sidx, schanged >>
  /\ UNCHANGED << constv, clientv, listenv, opts, cfgv, dd, noticev, hostv, sexisting, autov,
                  energyv, task, setups, countv, runReports >>

\* ------------------------------------------------ _async_ensure_automations
\* lines 163, 193-219: the one-shot guard, then the shipped file is handed
\* to the executor.
EnsureAutomations(e) ==
  /\ pc[e] = "autom"
  /\ IF "automations_imported" \in dd
       THEN /\ pc' = [pc EXCEPT ![e] = "energy"]
            /\ UNCHANGED dd
       ELSE /\ dd' = dd \cup {"automations_imported"}
            /\ pc' = [pc EXCEPT ![e] =
                        IF shipped = "missing" THEN "energy" ELSE "autom_shipped"]
  /\ achanged' = [achanged EXCEPT ![e] = FALSE]
  /\ UNCHANGED << constv, clientv, listenv, opts, cfgv, restartNeeded, noticev, hostv, sdv, slotv,
                  autoFile, energyv, task, setups, faults, countv, runv >>

\* lines 204-221: _load_yaml_list(shipped_path) on the executor.  OSError
\* and YAML errors yield []; a decoding error of read_text is not caught.
LoadShipped(e, f) ==
  /\ pc[e] = "autom_shipped"
  /\ Spend(f)
  /\ pc' = [pc EXCEPT ![e] =
              IF f = "decode" THEN "error"
              ELSE IF f = "oserror" \/ shipped = "empty" THEN "energy"
              ELSE "autom_read"]
  /\ UNCHANGED << constv, clientv, listenv, opts, cfgv, restartNeeded, dd, noticev, hostv, sdv,
                  slotv, autov, energyv, task, setups, countv, runv >>

\* lines 224-241: whether the merge appends anything to the user's list.
\* A file that is absent, unreadable or not a YAML list reads as [].  (The
\* shipped entries are taken to carry string ids here; ReadMergeWrite
\* models the merge on concrete lists.)
MergeChanges(file) == file # "merged"

\* lines 224-244 of _read_merge_write, on the executor.
AutomRead(e, f) ==
  /\ pc[e] = "autom_read"
  /\ Spend(f)
  /\ f = "oserror" => autoFile # "absent"
  /\ f = "decode" => autoFile # "absent"
  /\ pc' = [pc EXCEPT ![e] =
              IF f = "decode" THEN "error"
              ELSE IF f = "oserror" \/ MergeChanges(autoFile) THEN "autom_open"
              ELSE "autom_after"]
  /\ UNCHANGED << constv, clientv, listenv, opts, cfgv, restartNeeded, dd, noticev, hostv, sdv,
                  slotv, autov, energyv, task, setups, countv, runv >>

\* line 247: config_path.write_text opens automations.yaml for writing,
\* which truncates it in place.
AutomOpen(e, f) ==
  /\ pc[e] = "autom_open"
  /\ Spend(f)
  /\ IF f = "oserror"
       THEN /\ pc' = [pc EXCEPT ![e] = "autom_after"]
            /\ UNCHANGED autoFile
       ELSE /\ pc' = [pc EXCEPT ![e] = "autom_write"]
            /\ autoFile' = "partial"
  /\ UNCHANGED << constv, clientv, listenv, opts, cfgv, restartNeeded, dd, noticev, hostv, sdv,
                  slotv, achanged, energyv, task, setups, countv, runv >>

\* lines 247-255: the merged list is written into the open file.
AutomWrite(e, f) ==
  /\ pc[e] = "autom_write"
  /\ Spend(f)
  /\ pc' = [pc EXCEPT ![e] = "autom_after"]
  /\ IF f = "oserror"
       THEN UNCHANGED << autoFile, achanged, autoWrites >>
       ELSE /\ autoFile' = "merged"
            /\ achanged' = [achanged EXCEPT ![e] = TRUE]
            /\ autoWrites' = autoWrites + 1
  /\ UNCHANGED << constv, clientv, listenv, opts, cfgv, restartNeeded, dd, noticev, hostv, sdv,
                  slotv, energyv, task, setups, importRuns, energyWrites, runv >>

\* lines 257-266 and 163: back on the event loop; the automation reload is
\* best effort, and the result is ored into restart_needed.
AutomAfter(e) ==
  /\ pc[e] = "autom_after"
  /\ pc' = [pc EXCEPT ![e] = "energy"]
  /\ restartNeeded' = [restartNeeded EXCEPT ![e] = @ \/ achanged[e]]
  /\ runChanged' = [runChanged EXCEPT ![e] = @ \/ achanged[e]]
  /\ UNCHANGED << constv, clientv, listenv, opts, cfgv, dd, noticev, hostv, sdv, slotv, autov,
                  energyv, task, setups, faults, countv, runReports >>

\* ----------------------------------------- _async_configure_energy_dashboard
\* lines 166-167, 276-297: the option test and the template lookup.
ConfigureEnergy(e) ==
  /\ pc[e] = "energy"
  /\ pc' = [pc EXCEPT ![e] =
              IF ~cfgv[e].energy THEN "report"
              ELSE IF template = "missing" THEN "energy_after"
              ELSE "energy_tpl"]
  /\ echanged' = [echanged EXCEPT ![e] = FALSE]
  /\ UNCHANGED << constv, clientv, listenv, opts, cfgv, restartNeeded, dd, noticev, hostv, sdv,
                  slotv, autov, energyFile, energyTmp, energyBak, efd, task,
                  setups, faults, countv, runv >>

\* lines 284-299: _load_template_data on the executor.  OSError and invalid
\* JSON yield None; a decoding error of read_text is not caught.
LoadTemplate(e, f) ==
  /\ pc[e] = "energy_tpl"
  /\ Spend(f)
  /\ pc' = [pc EXCEPT ![e] =
              IF f = "decode" THEN "error"
              ELSE IF f \in {"oserror", "json"} \/ template = "nodata"
                THEN "energy_after"
              ELSE "energy_read"]
  /\ UNCHANGED << constv, clientv, listenv, opts, cfgv, restartNeeded, dd, noticev, hostv, sdv,
                  slotv, autov, energyv, task, setups, countv, runv >>

\* lines 324-339: whether the merged data differs from the data in the
\* store, or the store does not exist.  An interrupted write leaves a file
\* that reads as empty.
EnergyChanges(file) == file # "configured"

\* lines 302-349 of _read_modify_write, on the executor.
EnergyRead(e, f) ==
  /\ pc[e] = "energy_read"
  /\ Spend(f)
  /\ f \in {"oserror", "json", "decode"} => energyFile # "absent"
  /\ pc' = [pc EXCEPT ![e] =
              IF f = "decode" THEN "error"
              ELSE IF f \in {"mkdir", "oserror", "json"} THEN "energy_after"
              ELSE IF EnergyChanges(energyFile) THEN "energy_open"
              ELSE "energy_after"]
  /\ UNCHANGED << constv, clientv, listenv, opts, cfgv, restartNeeded, dd, noticev, hostv, sdv,
                  slotv, autov, energyv, task, setups, countv, runv >>

\* lines 363-370: the handler of a failed write removes energy.tmp if it
\* exists; descriptors still open on it keep an unlinked file.
Unlinked(fd) == [x \in Entries |-> IF fd[x] = "tmp" THEN "unlinked" ELSE fd[x]]

\* A failure of the write or of the rename is "oserror" when the unlink of
\* the handler succeeds and "stuck" when the unlink fails as well (lines
\* 368-369 pass over that), which leaves energy.tmp as it is.
WriteFailed(f) == f \in {"oserror", "stuck"}
CleanedTmp(tmp, f) == IF f = "stuck" THEN tmp ELSE "none"
CleanedFd(fd, f) == IF f = "stuck" THEN fd ELSE Unlinked(fd)

\* lines 351-361: best-effort backup of the raw content, then
\* tmp_path.write_text opens energy.tmp for writing (created or truncated).
EnergyOpen(e, f) ==
  /\ pc[e] = "energy_open"
  /\ Spend(f)
  /\ energyBak' = (energyBak \/ energyFile \in {"other", "configured"})
  /\ f = "stuck" => energyTmp # "none"
  /\ IF WriteFailed(f)
       THEN /\ pc' = [pc EXCEPT ![e] = "energy_after"]
            /\ energyTmp' = CleanedTmp(energyTmp, f)
            /\ efd' = CleanedFd(efd, f)
       ELSE /\ pc' = [pc EXCEPT ![e] = "energy_write"]
            /\ energyTmp' = "partial"
            /\ efd' = [efd EXCEPT ![e] = "tmp"]
  /\ UNCHANGED << constv, clientv, listenv, opts, cfgv, restartNeeded, dd, noticev, hostv, sdv,
                  slotv, autov, energyFile, echanged, task, setups, countv,
                  runv >>

\* line 361: the JSON text is written through the open descriptor, which
\* by now may name energy.tmp, the store itself (another run renamed the
\* file) or an unlinked file.
EnergyWrite(e, f) ==
  /\ pc[e] = "energy_write"
  /\ Spend(f)
  /\ f = "stuck" => energyTmp # "none"
  /\ IF WriteFailed(f)
       THEN /\ pc' = [pc EXCEPT ![e] = "energy_after"]
            /\ energyTmp' = CleanedTmp(energyTmp, f)
            /\ efd' = [CleanedFd(efd, f) EXCEPT ![e] = "none"]
            /\ UNCHANGED energyFile
       ELSE /\ pc' = [pc EXCEPT ![e] = "energy_replace"]
            /\ energyTmp' = IF efd[e] = "tmp" THEN "full" ELSE energyTmp
            /\ energyFile' = IF efd[e] = "store" THEN "configured" ELSE energyFile
            /\ efd' = [efd EXCEPT ![e] = "none"]
  /\ UNCHANGED << constv, clientv, listenv, opts, cfgv, restartNeeded, dd, noticev, hostv, sdv,
                  slotv, autov, energyBak, echanged, task, setups, countv, runv >>

\* line 362: tmp_path.replace(storage_path) renames energy.tmp over the
\* store; it fails when energy.tmp is gone.
RenamedContent(tmp) == IF tmp = "full" THEN "configured" ELSE "partial"

EnergyReplace(e, f) ==
  /\ pc[e] = "energy_replace"
  /\ Spend(f)
  /\ f = "stuck" => energyTmp # "none"
  /\ IF WriteFailed(f) \/ energyTmp = "none"
       THEN /\ pc' = [pc EXCEPT ![e] = "energy_after"]
            /\ energyTmp' = CleanedTmp(energyTmp, f)
            /\ efd' = CleanedFd(efd, f)
            /\ UNCHANGED << energyFile, echanged, energyWrites >>
       ELSE /\ pc' = [pc EXCEPT ![e] = "energy_after"]
            /\ energyFile' = RenamedContent(energyTmp)
            /\ energyTmp' = "none"
            /\ efd' = [x \in Entries |-> IF efd[x] = "tmp" THEN "store" ELSE efd[x]]
            /\ echanged' = [echanged EXCEPT ![e] = TRUE]
            /\ energyWrites' = energyWrites + 1
  /\ UNCHANGED << constv, clientv, listenv, opts, cfgv, restartNeeded, dd, noticev, hostv, sdv,
                  slotv, autov, energyBak, task, setups, importRuns,
                  autoWrites, runv >>

\* lines 374-377 and 167-176: back on the event loop; the result is ored
\* into restart_needed and the one-shot option is switched off.
EnergyAfter(e) ==
  /\ pc[e] = "energy_after"
  /\ pc' = [pc EXCEPT ![e] = "report"]
  /\ restartNeeded' = [restartNeeded EXCEPT ![e] = @ \/ echanged[e]]
  /\ runChanged' = [runChanged EXCEPT ![e] = @ \/ echanged[e]]
  /\ opts' = [opts EXCEPT ![e].energy = FALSE]
  /\ suppress' = SetSuppress(e)
  /\ updates' = UpdateEntry(e, opts[e].energy)
  /\ UNCHANGED << constv, clientv, reloads, cfgv, dd, noticev, hostv, sdv, slotv, autov, energyv,
                  task, setups, faults, countv, runReports >>

\* lines 178-180
ReportRestart(e) ==
  /\ pc[e] = "report"
  /\ pc' = [pc EXCEPT ![e] = "forward"]
  /\ IF restartNeeded[e] /\ ~cfgv[e].inst
       THEN /\ issue' = ReportIssue(issue)
            /\ raised' = ReportIssue(raised)
            /\ notification' = ReportNotification(notification)
            /\ dd' = ReportDomainData(dd)
            /\ runReports' = AddReport(e)
       ELSE UNCHANGED << issue, raised, notification, dd, runReports >>
  /\ UNCHANGED << constv, clientv, listenv, opts, cfgv, restartNeeded, hostv, sdv, slotv, autov,
                  energyv, task, setups, faults, countv, runChanged >>

\* lines 182-183: the entry is forwarded to the sensor platform.
ForwardSetups(e) ==
  /\ pc[e] = "forward"
  /\ pc' = [pc EXCEPT ![e] = "loaded"]
  /\ UNCHANGED << constv, clientv, listenv, opts, cfgv, restartNeeded, dd, noticev, hostv, sdv,
                  slotv, autov, energyv, task, setups, faults, countv, runv >>

\* ------------------------------------------------------- installer task
\* lines 146-157: the tail of _run_and_disable: the one-shot option is
\* switched off and the restart notice requested.
RunAndDisableTail(e) ==
  /\ task' = [task EXCEPT ![e] = "done"]
  /\ opts' = [opts EXCEPT ![e].inst = FALSE]
  /\ suppress' = SetSuppress(e)
  /\ updates' = UpdateEntry(e, opts[e].inst)
  /\ issue' = ReportIssue(issue)
  /\ notification' = ReportNotification(notification)
  /\ dd' = ReportDomainData(dd)
  /\ runReports' = AddReport(e)
  /\ UNCHANGED raised

\* lines 65-76, 130: the task starts the hook.  A missing script yields
\* exit code 127 without an await; create_subprocess_exec may raise, and
\* nothing in _run_and_disable catches that.  (The task is ready from line
\* 159 on: its first step is taken to run before the update-listener tasks
\* that are created later.)
InstallerLaunch(e, f) ==
  /\ task[e] = "created"
  /\ updates[e] = 0
  /\ Spend(f)
  /\ IF script = "missing"
       THEN /\ f = "ok"
            /\ RunAndDisableTail(e)
       ELSE /\ task' = [task EXCEPT ![e] = IF f = "launch" THEN "died" ELSE "running"]
            /\ UNCHANGED << opts, noticev, dd, runReports, suppress, updates >>
  /\ UNCHANGED << constv, clientv, reloads, cfgv, pc, restartNeeded, hostv, sdv, slotv, autov,
                  energyv, setups, countv, runChanged >>

\* lines 78-81, 130-157: the hook exits with a zero or non-zero code.
InstallerExit(e, rc) ==
  /\ task[e] = "running"
  /\ RunAndDisableTail(e)
  /\ UNCHANGED << constv, clientv, reloads, cfgv, pc, restartNeeded, hostv, sdv, slotv, autov,
                  energyv, setups, faults, countv, runChanged >>

\* ------------------------------------------------------------ host events
\* The host sets up Lovelace: LOVELACE_DATA appears in hass.data.
LovelaceSetup ==
  /\ lovelaceAvail /\ ~lovelaceReady
  /\ lovelaceReady' = TRUE
  /\ UNCHANGED << constv, clientv, listenv, opts, cfgv, pc, restartNeeded, dd, noticev, started,
                  listeners, retryPending, sdv, slotv, autov, energyv, task,
                  setups, faults, countv, runv >>

\* EVENT_HOMEASSISTANT_STARTED fires, once: every listen_once listener
\* registered before it is called.
HomeAssistantStarted ==
  /\ ~started
  /\ started' = TRUE
  /\ retryPending' = retryPending + listeners
  /\ listeners' = 0
  /\ UNCHANGED << constv, clientv, listenv, opts, cfgv, pc, restartNeeded, dd, noticev,
                  lovelaceReady, sdv, slotv, autov, energyv, task, setups,
                  faults, countv, runv >>

\* ----------------------------------------------------- async_unload_entry
\* lines 393-395
ActiveEntries(d) == d \ {"dashboards_registered"}

\* line 400: domain_data.pop("dashboards_registered", set()).  Only
\* _async_register_dashboards (lines 405-427) adds url paths to that set,
\* and nothing calls it; the panels of the storage dashboards (line 656) are
\* not recorded in it.
DashboardsRegistered(d) == {}

\* (mutation of Removes: the result of the platform unload is not tested)
RemovesAlways(unload_ok, e, d) == e \in d

\* line 382: the entry's data are removed when the platforms unloaded
Removes(unload_ok, e, d) == unload_ok /\ e \in d

\* lines 380-402; the popped data (with their "_suppress_next_reload")
\* are dropped, the client is closed, an exception of close() being
\* swallowed (lines 388-391), and the panels in the popped set are removed
\* from the frontend (lines 813-815).  The routine returns unload_ok.
UnloadEntry(e, unload_ok, f) ==
  /\ pc[e] = "loaded"
  /\ updates[e] = 0
  /\ Spend(f)
  /\ f = "close" => Removes(unload_ok, e, dd)
  /\ unloaded' = [unloaded EXCEPT ![e] =
                    [called |-> TRUE, ok |-> unload_ok, raised |-> f = "close"]]
  /\ IF Removes(unload_ok, e, dd)
       THEN /\ pc' = [pc EXCEPT ![e] = "idle"]
            /\ closes' = [closes EXCEPT ![e] = @ + 1]
            /\ suppress' = [suppress EXCEPT ![e] = FALSE]
            /\ LET d == dd \ {e} IN
               IF ActiveEntries(d) = {}
                 THEN /\ dd' = d \ {"dependencies_installed", "dashboards_registered"}
                      /\ panels' = panels \ DashboardsRegistered(d)
                 ELSE /\ dd' = d
                      /\ UNCHANGED panels
       ELSE UNCHANGED << pc, dd, panels, closes, suppress >>
  /\ UNCHANGED << constv, orphans, updates, reloads, opts, cfgv, restartNeeded,
                  noticev, hostv, sdv, owned, coll, stored, autov, energyv,
                  task, setups, countv, runv >>

\* ------------------------------------------------------ _async_reload_entry
\* lines 56-62: an update-listener task runs: it pops the flag from the
\* entry's data and returns, or, finding no flag, calls async_reload (the
\* unload and the setup that follow are steps of their own).  The host
\* creates the task in async_update_entry; it runs at once or after the
\* steps of other tasks that were ready before it.
ReloadEntry(e) ==
  /\ updates[e] > 0
  /\ updates' = [updates EXCEPT ![e] = @ - 1]
  /\ IF e \in dd /\ suppress[e]
       THEN /\ suppress' = [suppress EXCEPT ![e] = FALSE]
            /\ UNCHANGED reloads
       ELSE /\ reloads' = [reloads EXCEPT ![e] = TRUE]
            /\ UNCHANGED suppress
  /\ UNCHANGED << constv, clientv, opts, cfgv, pc, restartNeeded, dd, noticev,
                  hostv, sdv, slotv, autov, energyv, task, setups, faults,
                  countv, runv >>

\* ---------------------------------------------------------- specification
SetupSteps ==
  \/ \E e \in Entries : SetupBegin(e)
  \/ \E e \in Entries : \E f \in Outcomes({"refresh"}) : FirstRefresh(e, f)
  \/ \E e \in Entries : \E f \in Outcomes({"mkdir"}) : EnsureStorageDashboards(e, f)
  \/ \E c \in Ctx : \E f \in Outcomes({"load"}) : CollectionLoad(c, f)
  \/ \E c \in Ctx : \E f \in Outcomes({"create", "load", "save", "register"}) :
       ImportSlot(c, f)
  \/ \E e \in Entries : EnsureAutomations(e)
  \/ \E e \in Entries : \E f \in Outcomes({"oserror", "decode"}) : LoadShipped(e, f)
  \/ \E e \in Entries : \E f \in Outcomes({"oserror", "decode"}) : AutomRead(e, f)
  \/ \E e \in Entries : \E f \in Outcomes({"oserror"}) : AutomOpen(e, f)
  \/ \E e \in Entries : \E f \in Outcomes({"oserror"}) : AutomWrite(e, f)
  \/ \E e \in Entries : AutomAfter(e)
  \/ \E e \in Entries : ConfigureEnergy(e)
  \/ \E e \in Entries : ReportRestart(e)
  \/ \E e \in Entries : ForwardSetups(e)
  \/ \E e \in Entries : \E ok \in BOOLEAN : \E f \in Outcomes({"close"}) :
       UnloadEntry(e, ok, f)

EnergySteps ==
  \/ \E e \in Entries : \E f \in Outcomes({"oserror", "json", "decode"}) :
       LoadTemplate(e, f)
  \/ \E e \in Entries : \E f \in Outcomes({"mkdir", "oserror", "json", "decode"}) :
       EnergyRead(e, f)
  \/ \E e \in Entries : \E f \in Outcomes({"oserror", "stuck"}) :
       EnergyOpen(e, f)
  \/ \E e \in Entries : \E f \in Outcomes({"oserror", "stuck"}) :
       EnergyWrite(e, f)
  \/ \E e \in Entries : \E f \in Outcomes({"oserror", "stuck"}) :
       EnergyReplace(e, f)
  \/ \E e \in Entries : EnergyAfter(e)

InstallerSteps ==
  \/ \E e \in Entries : \E f \in Outcomes({"launch"}) : InstallerLaunch(e, f)
  \/ \E e \in Entries : \E rc \in {0, 1} : InstallerExit(e, rc)

HostSteps ==
  \/ LovelaceSetup
  \/ HomeAssistantStarted
  \/ \E f \in Outcomes({"mkdir"}) : Retry(f)

ListenerSteps == \E e \in Entries : ReloadEntry(e)

Next ==
  SetupSteps \/ EnergySteps \/ InstallerSteps \/ HostSteps \/ ListenerSteps

Spec == Init /\ [][Next]_vars

\* One config entry with any options, in an environment without failures
\* in which the installer hook exists and runs as a subprocess.
InitOpt ==
  /\ InitCommon
  /\ NoInputs
  /\ FreshSlots
  /\ pc = [e \in Entries |-> IF e = "e1" THEN "idle" ELSE "absent"]
  /\ opts \in [Entries -> Options]
  /\ opts["e2"] = [imp |-> FALSE, energy |-> FALSE, inst |-> FALSE]
  /\ irAvail = TRUE
  /\ lovelaceAvail = TRUE
  /\ script = "present"
  /\ autoFile = "absent"
  /\ energyFile \in {"absent", "configured"}
  /\ faults = 0

SpecOpt == InitOpt /\ [][Next]_vars

\* Two config entries set up and reloaded concurrently, in an environment
\* without failures; the installer hook is not selected.
NoInstaller == {o \in Options : ~o.inst}

InitConc ==
  /\ InitCommon
  /\ NoInputs
  /\ FreshSlots
  /\ pc = [e \in Entries |-> "idle"]
  /\ opts \in [Entries -> NoInstaller]
  /\ irAvail = TRUE
  /\ lovelaceAvail = TRUE
  /\ script = "present"
  /\ autoFile = "absent"
  /\ energyFile = "absent"
  /\ faults = 0

NextConc == SetupSteps \/ EnergySteps \/ HostSteps \/ ListenerSteps

SpecConc == InitConc /\ [][NextConc]_vars

\* One config entry importing dashboards into a Lovelace installation in
\* any state: per slot, what Lovelace, its collection and its store already
\* hold and which source files exist (first and last slot alike).
SlotProfiles ==
  { [own |-> FALSE, col |-> FALSE, st |-> "absent", usr |-> "missing", pkg |-> "good"],
    [own |-> FALSE, col |-> FALSE, st |-> "absent", usr |-> "good", pkg |-> "good"],
    [own |-> FALSE, col |-> FALSE, st |-> "absent", usr |-> "bad", pkg |-> "good"],
    [own |-> FALSE, col |-> FALSE, st |-> "absent", usr |-> "missing", pkg |-> "bad"],
    [own |-> FALSE, col |-> FALSE, st |-> "user", usr |-> "missing", pkg |-> "good"],
    [own |-> FALSE, col |-> TRUE, st |-> "absent", usr |-> "missing", pkg |-> "good"],
    [own |-> FALSE, col |-> TRUE, st |-> "empty", usr |-> "missing", pkg |-> "good"],
    [own |-> FALSE, col |-> TRUE, st |-> "user", usr |-> "good", pkg |-> "good"],
    [own |-> TRUE, col |-> TRUE, st |-> "user", usr |-> "missing", pkg |-> "good"],
    [own |-> TRUE, col |-> FALSE, st |-> "absent", usr |-> "missing", pkg |-> "good"] }

InitDash ==
  /\ InitCommon
  /\ NoInputs
  /\ \E prof \in [Slots -> SlotProfiles] :
       /\ prof[1] = prof[NumSlots]
       /\ owned = {s \in Slots : prof[s].own}
       /\ coll = {s \in Slots : prof[s].col}
       /\ stored = [s \in Slots |-> prof[s].st]
       /\ srcUser = [s \in Slots |-> prof[s].usr]
       /\ srcPkg = [s \in Slots |-> prof[s].pkg]
  /\ panels = {}
  /\ pc = [e \in Entries |-> IF e = "e1" THEN "idle" ELSE "absent"]
  /\ opts = [e \in Entries |-> [imp |-> e = "e1", energy |-> FALSE, inst |-> FALSE]]
  /\ irAvail = TRUE
  /\ lovelaceAvail = TRUE
  /\ script = "present"
  /\ autoFile = "merged"
  /\ energyFile = "absent"
  /\ faults = MaxFaults

NextDash == SetupSteps \/ HostSteps

SpecDash == InitDash /\ [][NextDash]_vars

\* The query client alone: operations called one after the other against a
\* backend that answers in every possible way.
\* lines 65-86, 115-138, 154-166, 223-235: an operation builds its query and
\* awaits the backend call.
BeginCall(o) ==
  /\ call = "none"
  /\ call' = o
  /\ UNCHANGED << lvars, purev, outcome >>

\* async_validate, lines 65-95
Validate(o, r) ==
  /\ call = o
  /\ o \in {"async_validate(bucket)", "async_validate()"}
  /\ outcome' = [outcome EXCEPT ![o] =
                   [resp |-> r, result |-> Surface(r), logged |-> LogsRejection(r)]]
  /\ call' = "none"
  /\ UNCHANGED << lvars, purev >>

\* async_query_last, lines 115-152
QueryLast(r) ==
  /\ call = "async_query_last"
  /\ outcome' = [outcome EXCEPT !["async_query_last"] =
                   [resp |-> r, result |-> Surface(r), logged |-> LogsRejection(r)]]
  /\ call' = "none"
  /\ UNCHANGED << lvars, purev >>

\* async_get_forecast, lines 154-221
GetForecast(r) ==
  /\ call = "async_get_forecast"
  /\ outcome' = [outcome EXCEPT !["async_get_forecast"] =
                   [resp |-> r, result |-> Surface(r), logged |-> LogsRejection(r)]]
  /\ call' = "none"
  /\ UNCHANGED << lvars, purev >>

\* async_get_optimal_actions, lines 223-278
GetOptimalActions(r) ==
  /\ call = "async_get_optimal_actions"
  /\ outcome' = [outcome EXCEPT !["async_get_optimal_actions"] =
                   [resp |-> r, result |-> Surface(r), logged |-> LogsRejection(r)]]
  /\ call' = "none"
  /\ UNCHANGED << lvars, purev >>

InitApi ==
  /\ InitCommon
  /\ NoInputs
  /\ FreshSlots
  /\ pc = [e \in Entries |-> "absent"]
  /\ opts = [e \in Entries |-> [imp |-> FALSE, energy |-> FALSE, inst |-> FALSE]]
  /\ irAvail = TRUE /\ lovelaceAvail = TRUE /\ script = "present"
  /\ autoFile = "absent" /\ energyFile = "absent"
  /\ faults = 0

NextApi ==
  \/ \E o \in Operations : BeginCall(o)
  \/ \E o \in Operations : \E r \in Responses : Validate(o, r)
  \/ \E r \in Responses : QueryLast(r)
  \/ \E r \in Responses : GetForecast(r)
  \/ \E r \in Responses : GetOptimalActions(r)

SpecApi == InitApi /\ [][NextApi]_vars

\* ---------------------------------------- _read_merge_write, on concrete lists
\* An automation is the pair of its id and alias (its other keys play no
\* part in the merge).  An id is absent, a string or a number; text is what
\* str() yields, so the number 5 and the string "5" have the same text.
\* The sample texts carry no surrounding white space and are not empty, and
\* YAML keeps the type of a scalar through safe_dump and safe_load.
AutomationIds ==
  { [kind |-> "absent", text |-> ""], [kind |-> "str", text |-> "a1"],
    [kind |-> "str", text |-> "5"], [kind |-> "int", text |-> "5"] }

\* An alias is a string; "" stands for no alias.
AutomationAliases == {"", "New", "new"}

Automations == [id : AutomationIds, alias : AutomationAliases]

\* str.lower on the sample aliases
Lower(a) == IF a = "New" THEN "new" ELSE a

Indices(list) == 1..Len(list)

\* line 226: the ids of the existing entries whose id is a non-empty string
ExistingIds(existing) ==
  { existing[i].id.text : i \in {j \in Indices(existing) :
                                    existing[j].id.kind = "str"} }

\* line 227: the lower-cased aliases of the existing entries
ExistingAliases(existing) ==
  { Lower(existing[i].alias) : i \in {j \in Indices(existing) :
                                        existing[j].alias # ""} }

\* line 231: str(automation.get("id") or "").strip()
AutomationId(automation) == automation.id.text

\* line 232: str(automation.get("alias") or "").strip()
AutomationAlias(automation) == automation.alias

\* lines 235-238: the two tests that skip a shipped entry
AlreadyPresent(automation, existing) ==
  \/ /\ AutomationId(automation) # ""
     /\ AutomationId(automation) \in ExistingIds(existing)
  \/ /\ AutomationId(automation) = ""
     /\ AutomationAlias(automation) # ""
     /\ Lower(AutomationAlias(automation)) \in ExistingAliases(existing)

\* lines 230-241: the shipped entries the loop appends, in shipped order;
\* the id and alias sets are those of the list as it was read.
AppendedBy(shippedList, existing) ==
  LET Keep(automation) == ~AlreadyPresent(automation, existing)
  IN SelectSeq(shippedList, Keep)

\* lines 223-255: one run of _read_merge_write in a process lifetime whose
\* write succeeds: the file is rewritten only when an entry was appended.
ReadMergeWrite ==
  /\ mergeRuns < MaxMerges
  /\ mergeRuns' = mergeRuns + 1
  /\ LET existing == configYaml
         new == AppendedBy(shippedYaml, existing)
         changed == new # << >>
     IN /\ mergeExisting' = existing
        /\ mergeAppended' = new
        /\ mergeWrote' = changed
        /\ configYaml' = IF changed THEN existing \o new ELSE configYaml
  /\ UNCHANGED << lvars, apiv, storev, rowsv, shippedYaml >>

Lists(S) == UNION { [1..n -> S] : n \in 0..MaxLen }

InitIdle ==
  /\ InitCommon
  /\ FreshSlots
  /\ pc = [e \in Entries |-> "absent"]
  /\ opts = [e \in Entries |-> [imp |-> FALSE, energy |-> FALSE, inst |-> FALSE]]
  /\ irAvail = TRUE /\ lovelaceAvail = TRUE /\ script = "present"
  /\ autoFile = "absent" /\ energyFile = "absent"
  /\ faults = 0

\* The automations merge alone, on every shipped list and every user list
\* of up to MaxLen entries, run once per process lifetime.
InitMerge ==
  /\ InitIdle
  /\ NoStore /\ NoRows
  /\ shippedYaml \in Lists(Automations)
  /\ configYaml \in Lists(Automations)
  /\ mergeRuns = 0
  /\ mergeExisting = << >> /\ mergeAppended = << >>
  /\ mergeWrote = FALSE

NextMerge == ReadMergeWrite

SpecMerge == InitMerge /\ [][NextMerge]_vars

\* --------------------------------- _read_modify_write, on concrete documents
\* A JSON object is a function from its keys; a JSON list is written as a
\* string in brackets.  The value of "data" is kept with a mark that tells
\* whether it is an object, as isinstance(.., dict) does.
Has(d, k) == k \in DOMAIN d
Get(d, k, default) == IF Has(d, k) THEN d[k] ELSE default
Put(d, k, v) == [x \in DOMAIN d \cup {k} |-> IF x = k THEN v ELSE d[x]]
IsList(v) == v \in {"[]", "[grid]", "[solar]", "[x]", "[t]", "[w]"}

\* (mutation of Missing: an empty list is taken for an absent key)
MissingOrEmpty(d, k) == ~Has(d, k) \/ d[k] = "[]"

\* lines 333, 335: "<key>" not in new_data
Missing(d, k) == ~Has(d, k)

\* (mutation of SetDefault: the default replaces a value that is present)
SetAlways(d, k, v) == Put(d, k, v)

\* lines 343-347: if "<key>" not in out: out["<key>"] = <default>
SetDefault(d, k, v) == IF Has(d, k) THEN d ELSE Put(d, k, v)

\* lines 324-326
CurrentData(existing) ==
  IF Has(existing, "data") /\ existing["data"].dict
    THEN existing["data"].items
    ELSE << >>

\* lines 328-336
NewData(current_data, template_data) ==
  LET sources == Get(template_data, "energy_sources", "none")
      d1 == IF IsList(sources)
              THEN Put(current_data, "energy_sources", sources)
              ELSE current_data
      d2 == IF Missing(d1, "device_consumption")
              THEN Put(d1, "device_consumption",
                       Get(template_data, "device_consumption", "[]"))
              ELSE d1
  IN IF Missing(d2, "device_consumption_water")
       THEN Put(d2, "device_consumption_water",
                Get(template_data, "device_consumption_water", "[]"))
       ELSE d2

\* lines 341-349
OutStore(existing, new_data) ==
  LET o1 == SetDefault(existing, "version", 1)
      o2 == SetDefault(o1, "minor_version", 2)
      o3 == Put(o2, "key", "energy")
  IN Put(o3, "data", [dict |-> TRUE, items |-> new_data])

\* lines 301-372: one run of _read_modify_write whose file operations
\* succeed.  An absent file, an empty file and a document that is not an
\* object all read as {} (lines 309-322).
ReadModifyWrite ==
  /\ ~rmwDone
  /\ rmwDone' = TRUE
  /\ LET existing == IF storeExists THEN storeJson ELSE << >>
         current_data == CurrentData(existing)
         new_data == NewData(current_data, templateData)
         changed == ~(new_data = current_data /\ storeExists)
     IN /\ rmwExisting' = existing
        /\ rmwChanged' = changed
        /\ storeExists' = (storeExists \/ changed)
        /\ storeJson' = IF changed THEN OutStore(existing, new_data)
                        ELSE storeJson
  /\ UNCHANGED << lvars, apiv, mergev, rowsv, templateData >>

\* The documents the run is tried on.  Key by key: absent (""/0) or one of
\* the values listed.
Objects(keys, values) ==
  { d \in UNION { [ks -> values] : ks \in SUBSET keys } : TRUE }

DataObjects ==
  { d \in Objects({"energy_sources", "device_consumption",
                   "device_consumption_water", "currency"},
                  {"[]", "[grid]", "[x]", "EUR"}) :
      /\ Has(d, "energy_sources") => d["energy_sources"] \in {"[]", "[grid]"}
      /\ Has(d, "device_consumption") => d["device_consumption"] \in {"[]", "[x]"}
      /\ Has(d, "device_consumption_water") => d["device_consumption_water"] = "[]"
      /\ Has(d, "currency") => d["currency"] = "EUR" }

DataValues ==
  [dict : {TRUE}, items : DataObjects] \cup {[dict |-> FALSE, items |-> << >>]}

TemplateObjects ==
  { d \in Objects({"energy_sources", "device_consumption",
                   "device_consumption_water"},
                  {"[solar]", "null", "[]", "[t]", "[w]"}) :
      /\ d # << >>
      /\ Has(d, "energy_sources") => d["energy_sources"] \in {"[solar]", "null"}
      /\ Has(d, "device_consumption") => d["device_consumption"] \in {"[]", "[t]"}
      /\ Has(d, "device_consumption_water") => d["device_consumption_water"] = "[w]" }

MakeStore(version, minor, key, custom, hasData, data) ==
  LET s1 == IF version = 0 THEN << >> ELSE Put(<< >>, "version", version)
      s2 == IF minor = 0 THEN s1 ELSE Put(s1, "minor_version", minor)
      s3 == IF key = "" THEN s2 ELSE Put(s2, "key", key)
      s4 == IF custom = "" THEN s3 ELSE Put(s3, "custom", custom)
  IN IF hasData THEN Put(s4, "data", data) ELSE s4

\* The Energy merge alone, on every existing store and template above.
InitStore ==
  /\ InitIdle
  /\ NoMerge /\ NoRows
  /\ storeExists \in BOOLEAN
  /\ \E version \in {0, 7}, minor \in {0, 5}, key \in {"", "energy", "other"},
        custom \in {"", "c"}, hasData \in BOOLEAN, data \in DataValues :
       storeJson = IF storeExists
                     THEN MakeStore(version, minor, key, custom, hasData, data)
                     ELSE << >>
  /\ templateData \in TemplateObjects
  /\ rmwExisting = << >>
  /\ rmwDone = FALSE /\ rmwChanged = FALSE

NextStore == ReadModifyWrite

SpecStore == InitStore /\ [][NextStore]_vars

\* ------------------------------------------- api.py: reshaping of a rowset
\* A field identifier is the sequence of its "/"-separated segments.

\* lines 190-198 and 259-267: the keys every new record starts with
ForecastKeys == {"ctr", "ts", "cf", "pf", "sf", "bp", "sp"}
OptimalKeys == {"bc", "bg", "gb", "gc", "pb", "pc", "pg"}

InitialKeys(o) ==
  IF o = "async_get_forecast" THEN ForecastKeys ELSE OptimalKeys

\* lines 203-216: the if/elif chain of the forecast reshaper; "" when no
\* branch matches.
ForecastKey(field) ==
  CASE field = << "cs", "schedule", "controller" >> -> "ctr"
    [] field = << "cs", "schedule", "target_soc" >> -> "ts"
    [] field = << "cs", "forecasts", "consumption_forecast_kwh" >> -> "cf"
    [] field = << "cs", "forecasts", "production_forecast_kwh" >> -> "pf"
    [] field = << "cs", "forecasts", "soc_forecast" >> -> "sf"
    [] field = << "cs", "prices", "buy_total_price_per_kwh" >> -> "bp"
    [] field = << "cs", "prices", "sell_price_per_kwh" >> -> "sp"
    [] OTHER -> ""

\* line 272: field.split("/")[-1]
LastSegment(field) == field[Len(field)]

\* lines 203-216 and 272-273: the keys of the record that a row assigns
AssignedKeys(o, field) ==
  IF o = "async_get_forecast"
    THEN (IF ForecastKey(field) = "" THEN {} ELSE {ForecastKey(field)})
    ELSE {LastSegment(field)}

\* The time zones tried, on a window of instants (hours, UTC) over which
\* the zone's offset changes at TransitionAt (the end of daylight saving).
TimeZones == {"UTC", "Europe/Warsaw", "America/New_York"}
Instants == 0..2
TransitionAt == 2

\* dt_util.get_time_zone(..) and astimezone: the UTC offset at an instant
UtcOffset(tz, t) ==
  CASE tz = "UTC" -> 0
    [] tz = "Europe/Warsaw" -> IF t < TransitionAt THEN 2 ELSE 1
    [] tz = "America/New_York" -> IF t < TransitionAt THEN 0 - 4 ELSE 0 - 5

\* (mutation of HourKey: the offset is left out of the text)
HourKeyNaive(tz, t) == [local |-> t + UtcOffset(tz, t), offset |-> 0]

\* lines 187-188 and 256-257: local_time.isoformat(), the local date and
\* time followed by the offset ("2024-10-27T02:00:00+01:00").
HourKey(tz, t) == [local |-> t + UtcOffset(tz, t), offset |-> UtcOffset(tz, t)]

\* The place of an offset text among the others in string order: "+" sorts
\* before "-", and after the sign the digits decide.
OffsetOrder(offset) == IF offset >= 0 THEN offset ELSE 100 - offset

\* lines 220 and 277: the order of sorted() on the keys, which are strings:
\* the fixed-width local date and time first, then the offset text.
StringLess(a, b) ==
  \/ a.local < b.local
  \/ a.local = b.local /\ OffsetOrder(a.offset) < OffsetOrder(b.offset)

RECURSIVE Sorted(_)
Sorted(keys) ==
  IF keys = {} THEN << >>
  ELSE LET first == CHOOSE k \in keys : \A x \in keys \ {k} : StringLess(k, x)
       IN << first >> \o Sorted(keys \ {first})

\* lines 182-216 and 251-273: the mapping built for one hour key.  A value
\* is rounded to three decimals (the sample value has no more).
DataFor(o, rowset, tz, key) ==
  LET at == {r \in rowset : HourKey(tz, r.t) = key}
      assigned == UNION {AssignedKeys(o, r.field) : r \in at}
  IN [k \in InitialKeys(o) \cup assigned |->
        IF k \in assigned
          THEN (CHOOSE r \in at : k \in AssignedKeys(o, r.field)).value
          ELSE "null"]

\* lines 179-221 and 248-278: the list a reshaper returns; the keys of an
\* emitted record are "dt" and those of data.
Reshape(o, rowset, tz) ==
  LET keys == Sorted({HourKey(tz, r.t) : r \in rowset})
  IN [i \in 1..Len(keys) |->
        [dt |-> keys[i], data |-> DataFor(o, rowset, tz, keys[i])]]

\* async_get_forecast, lines 179-221, on the tables the query returned
ReshapeForecast ==
  /\ "async_get_forecast" \notin reshaped
  /\ reshaped' = reshaped \cup {"async_get_forecast"}
  /\ records' = [records EXCEPT !["async_get_forecast"] =
                   Reshape("async_get_forecast", rows["async_get_forecast"], tzone)]
  /\ UNCHANGED << lvars, apiv, mergev, storev, rows, tzone >>

\* async_get_optimal_actions, lines 248-278
ReshapeOptimalActions ==
  /\ "async_get_optimal_actions" \notin reshaped
  /\ reshaped' = reshaped \cup {"async_get_optimal_actions"}
  /\ records' = [records EXCEPT !["async_get_optimal_actions"] =
                   Reshape("async_get_optimal_actions",
                           rows["async_get_optimal_actions"], tzone)]
  /\ UNCHANGED << lvars, apiv, mergev, storev, rows, tzone >>

\* The fields tried: two that the reshaper recognises and one that it does
\* not.
FieldsTried(o) ==
  IF o = "async_get_forecast"
    THEN { << "cs", "schedule", "controller" >>,
           << "cs", "prices", "sell_price_per_kwh" >>,
           << "cs", "prices", "spot" >> }
    ELSE { << "cs", "opt_actions", "bc" >>, << "cs", "opt_actions", "pg" >>,
           << "cs", "opt_actions", "zz" >> }

RowsTried(o) == [t : Instants, field : FieldsTried(o), value : {"0.25"}]

\* The two reshapers alone, on every pair of rowsets of up to MaxRows rows
\* together and every time zone above.
InitReshape ==
  /\ InitIdle
  /\ NoMerge /\ NoStore
  /\ \E rf \in SUBSET RowsTried("async_get_forecast"),
        ro \in SUBSET RowsTried("async_get_optimal_actions") :
       /\ Cardinality(rf) + Cardinality(ro) <= MaxRows
       /\ rows = [o \in Reshapers |-> IF o = "async_get_forecast" THEN rf ELSE ro]
  /\ tzone \in TimeZones
  /\ reshaped = {}
  /\ records = [o \in Reshapers |-> << >>]

NextReshape == ReshapeForecast \/ ReshapeOptimalActions

SpecReshape == InitReshape /\ [][NextReshape]_vars

TypeOK ==
  /\ opts \in [Entries -> Options]
  /\ dd \subseteq (Entries \cup {"automations_imported", "storage_dashboards_imported",
                                "lovelace_retry_scheduled",
                                "restart_notification_shown"})
  /\ faults \in 0..MaxFaults
  /\ setups \in 0..MaxSetups

\* ================================================================= claims

\* C1: each provisioning routine (dashboards import, automations merge,
\* Energy configure) mutates its persisted target at most once in a process
\* lifetime, whatever the interleaving of entry setups and reloads.
C1_MutatesAtMostOnce ==
  /\ importRuns <= 1
  /\ autoWrites <= 1
  /\ energyWrites <= 1

\* C2: once the first refreshes have succeeded, no failure inside a
\* provisioning routine makes async_setup_entry raise: the setup always goes
\* on to forward the entry to the sensor platform.
C2_ProvisioningNeverAbortsSetup == \A e \in Entries : pc[e] # "error"

\* C3: the successful unload of the last remaining entry removes every
\* panel the integration registered with the frontend and the
\* dependencies_installed / dashboards_registered keys of domain_data.
LastUnload ==
  /\ \E e \in Entries : pc[e] = "loaded" /\ pc'[e] = "idle"
  /\ dd' \cap Entries = {}

C3_LastUnloadRemovesPanels ==
  [][LastUnload =>
       /\ panels' = {}
       /\ dd' \cap {"dependencies_installed", "dashboards_registered"} = {}]_vars

\* C4: every run that changed persisted state -- a setup run (with its
\* installer task) or the deferred dashboards import -- has requested the
\* restart notice exactly once by the time it has finished.
RunFinished(c) ==
  IF c = RETRY THEN spc[c] = "none" /\ retryPending = 0
  ELSE pc[c] = "loaded" /\ ~InstallerBusy(c)

C4_ChangeRequestsRestartNotice ==
  \A c \in Ctx : RunFinished(c) /\ runChanged[c] => runReports[c] = 1

\* C5: while Lovelace is not initialised the dashboards import changes
\* nothing and its one-shot flag stays unset; at most one retry listener is
\* ever pending; and when the retry runs with Lovelace initialised the
\* import has run exactly once.
NothingImported ==
  /\ ~AlreadyImported(dd)
  /\ importRuns = 0
  /\ owned = {} /\ coll = {} /\ panels = {}
  /\ \A s \in Slots : stored[s] = "absent"

RetryRuns == retryPending' < retryPending

C5_DeferredImport ==
  /\ [](~lovelaceReady => NothingImported)
  /\ [](listeners + retryPending <= 1)
  /\ [](importRuns <= 1)
  /\ [][RetryRuns /\ lovelaceReady => importRuns' = 1]_vars

C5_Witness ==
  /\ started
  /\ spc[RETRY] = "slot"
  /\ importRuns = 1
  /\ setups = 2

\* C6: the import writes a stored Lovelace config only where none existed;
\* an existing stored config is never overwritten, and a slot whose url
\* path Lovelace already owns gets no collection item, no save and no panel.
C6_NeverOverwritesStoredConfig ==
  [][\A s \in Slots :
       /\ stored'[s] # stored[s] => stored[s] = "absent"
       /\ s \in owned =>
            /\ stored'[s] = stored[s]
            /\ (s \in coll') = (s \in coll)
            /\ (s \in panels') = (s \in panels)]_vars

C6_Witness ==
  /\ \E s \in Slots : stored[s] \in {"seeded_user", "seeded_pkg"}
  /\ \E s \in Slots : stored[s] = "user" /\ s \in panels
  /\ \E s \in Slots : stored[s] = "user" /\ s \notin panels /\ s \notin owned
  /\ pc["e1"] = "loaded"

\* C7: automations.yaml and .storage/energy never hold a partial content:
\* at every step they hold the complete previous or the complete new one.
C7_NoPartialFile == autoFile # "partial" /\ energyFile # "partial"

\* C8: when the installer was selected at the setup of an entry and the
\* attempt to run the hook has ended, the entry's run-installer option is
\* False.
C8_InstallerOptionCleared ==
  \A e \in Entries :
    cfgv[e].inst /\ task[e] \in {"done", "died"} => ~opts[e].inst

\* C9: in each of the four query operations a backend response with
\* status 401 raises SolarCubeApiAuthError, never SolarCubeApiRequestError,
\* and nothing is returned.
Is401(r) == r.kind = "ApiException" /\ r.status = Unauthorized

C9_UnauthorizedRaisesAuthError ==
  \A o \in Operations :
    Is401(outcome[o].resp) => outcome[o].result = "SolarCubeApiAuthError"

C9_Witness ==
  /\ \A o \in Operations : Is401(outcome[o].resp)
  /\ call = "none"

\* C10: in each of the four query operations every backend failure other
\* than a 401 response -- any other HTTP status and any network or transport
\* failure -- surfaces as SolarCubeApiRequestError and as nothing else.
IsOtherFailure(r) == r.kind \in {"ApiException", "transport"} /\ ~Is401(r)

C10_OtherFailuresRaiseRequestError ==
  \A o \in Operations :
    IsOtherFailure(outcome[o].resp) =>
      outcome[o].result = "SolarCubeApiRequestError"

\* C11: the merged list is the existing list unchanged and in order,
\* followed in shipped order by exactly the shipped entries that are not
\* present, where an entry is present iff its id equals the id of an
\* existing entry or, when it has no id, its alias equals that of an
\* existing entry up to case; the file is rewritten iff an entry was
\* appended.  The statement is taken to hold when it holds under either
\* reading of id equality: by value (the number 5 is not the string "5")
\* or by the way the id is written.
SameId(a, b, byValue) ==
  IF byValue THEN a = b ELSE a.kind # "absent" /\ b.kind # "absent" /\ a.text = b.text

Present(automation, existing, byValue) ==
  IF automation.id.kind # "absent"
    THEN \E i \in Indices(existing) :
           SameId(automation.id, existing[i].id, byValue)
    ELSE /\ automation.alias # ""
         /\ \E i \in Indices(existing) :
              /\ existing[i].alias # ""
              /\ Lower(existing[i].alias) = Lower(automation.alias)

NotPresentIn(shippedList, existing, byValue) ==
  LET Absent(automation) == ~Present(automation, existing, byValue)
  IN SelectSeq(shippedList, Absent)

C11_MergeResult ==
  mergeRuns > 0 =>
    \E byValue \in BOOLEAN :
      LET rest == NotPresentIn(shippedYaml, mergeExisting, byValue)
      IN /\ configYaml = mergeExisting \o rest
         /\ mergeWrote = (rest # << >>)

\* C12: a merge run on the file that an earlier merge of the same shipped
\* list produced appends nothing and does not rewrite the file.
C12_MergeIdempotent ==
  mergeRuns > 1 => mergeAppended = << >> /\ ~mergeWrote

\* C13: for a template whose energy_sources is a list, the data of the
\* store after the run has the template's energy_sources, and
\* device_consumption / device_consumption_water have the existing value
\* whenever the existing data has the key (an empty list too) and the
\* template's value, or an empty list, only when it has not.
WrittenData == storeJson["data"].items

FilledKeys == {"device_consumption", "device_consumption_water"}

C13_EnergyMergeData ==
  rmwDone /\ IsList(Get(templateData, "energy_sources", "none")) =>
    /\ WrittenData["energy_sources"] = templateData["energy_sources"]
    /\ \A k \in FilledKeys :
         WrittenData[k] =
           IF Has(CurrentData(rmwExisting), k)
             THEN CurrentData(rmwExisting)[k]
             ELSE Get(templateData, k, "[]")

C13_Witness ==
  /\ rmwDone /\ rmwChanged
  /\ Get(CurrentData(rmwExisting), "energy_sources", "none") = "[grid]"
  /\ Get(CurrentData(rmwExisting), "device_consumption", "none") = "[]"
  /\ ~Has(CurrentData(rmwExisting), "device_consumption_water")
  /\ Get(templateData, "energy_sources", "none") = "[solar]"
  /\ Get(templateData, "device_consumption", "none") = "[t]"
  /\ ~Has(templateData, "device_consumption_water")

\* C14 (as stated): in the written store every top-level key of the
\* existing store other than data keeps its value, every key of the
\* existing data other than the three merged ones keeps its value, and
\* version / minor_version are set to 1 / 2 only when absent.
MergedKeys == FilledKeys \cup {"energy_sources"}

DataFrame ==
  /\ \A k \in DOMAIN CurrentData(rmwExisting) \ MergedKeys :
       Has(WrittenData, k) /\ WrittenData[k] = CurrentData(rmwExisting)[k]
  /\ ~Has(rmwExisting, "version") => storeJson["version"] = 1
  /\ ~Has(rmwExisting, "minor_version") => storeJson["minor_version"] = 2

KeepsTopLevel(except) ==
  \A k \in DOMAIN rmwExisting \ except :
    Has(storeJson, k) /\ storeJson[k] = rmwExisting[k]

C14_EnergyMergeFrame_Original ==
  rmwDone /\ rmwChanged => KeepsTopLevel({"data"}) /\ DataFrame

\* C14 (amended): the same, except that the top-level key `key` does not
\* keep its value: it is always set to "energy".
C14_EnergyMergeFrame ==
  rmwDone /\ rmwChanged =>
    /\ KeepsTopLevel({"data", "key"})
    /\ storeJson["key"] = "energy"
    /\ DataFrame

C14_Witness ==
  /\ rmwDone /\ rmwChanged
  /\ Get(rmwExisting, "version", 0) = 7
  /\ ~Has(rmwExisting, "minor_version")
  /\ Get(rmwExisting, "key", "") = "other"
  /\ Has(rmwExisting, "custom")
  /\ Has(CurrentData(rmwExisting), "currency")

\* C15: for a rowset whose fields are all recognised, each reshaper returns
\* one record per distinct timestamp, each with the seven short keys of its
\* table and dt, in ascending order of dt; an empty rowset gives an empty
\* list.
Recognised(o) ==
  IF o = "async_get_forecast"
    THEN { << "cs", "schedule", "controller" >>,
           << "cs", "schedule", "target_soc" >>,
           << "cs", "forecasts", "consumption_forecast_kwh" >>,
           << "cs", "forecasts", "production_forecast_kwh" >>,
           << "cs", "forecasts", "soc_forecast" >>,
           << "cs", "prices", "buy_total_price_per_kwh" >>,
           << "cs", "prices", "sell_price_per_kwh" >> }
    ELSE { << "cs", "opt_actions", k >> : k \in OptimalKeys }

Timestamps(o) == {r.t : r \in rows[o]}

SevenKeys(o) == \A i \in 1..Len(records[o]) :
                  DOMAIN records[o][i].data = InitialKeys(o)

C15_OneRecordPerTimestamp ==
  \A o \in reshaped :
    (\A r \in rows[o] : r.field \in Recognised(o)) =>
      /\ Len(records[o]) = Cardinality(Timestamps(o))
      /\ {records[o][i].dt : i \in 1..Len(records[o])}
           = {HourKey(tzone, t) : t \in Timestamps(o)}
      /\ SevenKeys(o)
      /\ \A i \in 1..Len(records[o]) :
           \A k \in InitialKeys(o) :
             (records[o][i].data[k] = "null") =
               (\A r \in rows[o] :
                  HourKey(tzone, r.t) = records[o][i].dt =>
                    k \notin AssignedKeys(o, r.field))
      /\ \A i \in 1..Len(records[o]) - 1 :
           StringLess(records[o][i].dt, records[o][i + 1].dt)

C15_Witness ==
  /\ reshaped = Reshapers
  /\ \A o \in Reshapers :
       /\ Cardinality(rows[o]) = 2
       /\ Cardinality(Timestamps(o)) = 2
       /\ \A r \in rows[o] : r.field \in Recognised(o)
       /\ Len(records[o]) = 2

\* C16: a row with an unrecognised field adds no key to any record: every
\* emitted record has exactly the seven short keys of its table and dt.
C16_UnknownFieldIgnored == \A o \in reshaped : SevenKeys(o)

\* C18: the records are in chronological order of the instants they stand
\* for, in every time zone, also across a change of the zone's offset.
InstantOf(key) == key.local - key.offset

C18_ChronologicalOrder ==
  \A o \in reshaped :
    \A i \in 1..Len(records[o]) - 1 :
      InstantOf(records[o][i].dt) < InstantOf(records[o][i + 1].dt)

\* C17: when the platform unload succeeded, async_unload_entry has removed
\* the entry's data and called close on the entry's client exactly once,
\* and has returned also when close raised; when the platform unload
\* failed, the data are in place and the client has not been closed.
C17_UnloadClosesClient ==
  \A e \in Entries :
    unloaded[e].called =>
      IF unloaded[e].ok
        THEN e \notin dd /\ closes[e] = 1 /\ pc[e] = "idle"
        ELSE e \in dd /\ closes[e] = 0 /\ pc[e] = "loaded"

C17_Witness ==
  /\ unloaded["e1"] = [called |-> TRUE, ok |-> TRUE, raised |-> TRUE]
  /\ closes["e1"] = 1
  /\ "e1" \notin dd
  /\ setups = 2

\* C19: a run of the Energy configure routine in which reading the store
\* fails (an OSError, or bytes that do not decode), the store is not valid
\* JSON, or writing or renaming the temporary file fails, returns False,
\* leaves .storage/energy as it was and leaves no energy.tmp behind.  (No
\* other step of the run changes the store before the rename.)
InEnergyJob(e) ==
  pc[e] \in {"energy_read", "energy_open", "energy_write", "energy_replace"}

C19_EnergyStatePreserving ==
  [][\A e \in Entries :
       InEnergyJob(e) /\ pc'[e] # pc[e] =>
         /\ pc[e] # "energy_replace" => energyFile' = energyFile
         /\ faults' < faults =>
              /\ pc'[e] = "energy_after"
              /\ ~echanged'[e]
              /\ energyFile' = energyFile
              /\ energyTmp' = "none"]_vars

\* C20: no option update that the integration makes itself, to switch off
\* run-installer or configure-energy-dashboard, reloads the entry: every
\* update-listener task it starts returns without calling async_reload.
\* (The model has no other option updates.)
C20_InternalUpdateNeverReloads == \A e \in Entries : ~reloads[e]

\* C21: once line 180 has raised the restart issue in this process lifetime,
\* no later run of async_setup_entry (a reload of the entry, the setup of a
\* second entry) ends with the issue cleared: whenever no setup is running,
\* the issue is still in the registry.
SetupRunning(e) == pc[e] \notin {"absent", "idle", "loaded", "error"}

C21_RestartIssueStaysRaised ==
  (raised /\ \A e \in Entries : ~SetupRunning(e)) => issue

\* C22: every client created by async_setup_entry is closed by the time its
\* entry is no longer set up, on a successful unload and when the setup
\* aborts after creating it: no client on which close() was never called
\* is out of reach of the running setup and of domain_data.
C22_EveryClientClosed == orphans = 0

====
